---- MODULE Spec2Model ----
(***************************************************************************)
(* The push-to-talk translation pipeline of RVLT (src/app): the hotkey     *)
(* handler with its debounce (ptt.py), the session handlers, the capture   *)
(* callback and the processing loop of PTTPipeline (pipeline.py), the      *)
(* bounded frame queue between them, the capture stream (audio_devices.py),*)
(* the recognizer (azure_speech.py) and the mixer (voicemeeter_ctrl.py).   *)
(*                                                                         *)
(* Three threads run the code: the hotkey hook thread (one key event at a  *)
(* time, serialized by PTTHandler._lock; the session handlers run inside   *)
(* it), the audio thread that calls the capture callback, and the          *)
(* processing loop.  Each thread has a position (hk_pc, cb_pc, lp_pc) and  *)
(* one action per statement that touches shared state.  Times are in ms; the  *)
(* clock is kept as the times elapsed since the events the code compares   *)
(* it with.                                                                *)
(***************************************************************************)
EXTENDS Integers, Sequences, FiniteSets, TLC

\* ---- program constants ----
debounce_ms == 50         \* PTTConfig.debounce_ms
TailMs      == 300        \* time.sleep(0.3) in _on_ptt_released
strip_mic   == 0          \* VoicemeeterConfig.strip_mic
strip_tts   == 1          \* VoicemeeterConfig.strip_tts
DefaultMaxRetries == 3    \* VoicemeeterController.__init__(max_retries=3)
DefaultMaxSamples == 1000 \* TimingStats.__init__(max_samples=1000)
Int16Min == -32768         \* smallest np.int16
Int16Max == 32767          \* largest np.int16
MaxRatio == 8              \* validate_resample_ratio: ratio <= 8.0

\* ---- bounds of the model ----
maxsize   == 2            \* capacity of audio_buffer_48k (100 in the source), scaled
MaxFrames == 3            \* frames the capture stream delivers in all
TickMs    == 25           \* granularity of the times between key events
AgeCap    == 75           \* elapsed times are kept up to here (beyond the window)
MaxLoops  == 2            \* processing-loop threads that can exist at a time
MaxResults == 2           \* translation results the recognizer emits in all
MaxPushes == 8            \* frames pushed in the specification of the buffer alone
MaxRetries == 3           \* largest max_retries a controller is created with
MaxSamples == 3           \* largest max_samples a tracker is created with
MaxAdds    == 5           \* samples added to a tracker in all
MaxDuration == 2          \* durations are 1..MaxDuration ms
MaxFrameLen == 2          \* samples in the longest frame resampled
OvershootPct == 142       \* interpolated peak, in percent of the frame's peak

\* the values the arguments of the library calls are drawn from
FrameSamples == { Int16Min, 0, Int16Max }
ScaledSamples == { -46339, 0, 46339 }
StereoSamples == { Int16Min, -32767, -1000, -1, 0, 1, 1000, 32766, Int16Max }
ValidateRates == { -48000, 0, 1, 8, 9, 6000, 16000, 44100, 48000, 384000, 384001,
                   400000 }
GenericRates == { 0, 16000, 24000, 48000 }

\* the threads start() can create
Threads == 1..MaxLoops

\* An elapsed time a, d ms later, kept up to cap.
Advance(a, d, cap) == IF a + d > cap THEN cap ELSE a + d

VARIABLES
    setup_done,        \* setup() has returned True
    running,           \* PTTPipeline._running
    hook_active,       \* PTTHandler._active: the key hook is installed
    pressed,           \* PTTHandler._pressed
    elapsed,           \* time.time()*1000 - PTTHandler._last_event_time
    hk_pc,             \* position of the hotkey thread
    ptt_active,        \* PTTPipeline._ptt_active
    connected,         \* VoicemeeterController._connected
    strip_mute,        \* vm.strip[i].mute
    audio_buffer_48k,  \* PTTPipeline.audio_buffer_48k (sequence numbers of frames)
    stream,            \* AudioInputStream.stream: "none", "open" (not started), "active"
    captured,          \* frames delivered by the capture stream so far
    cb_pc,             \* position of the capture callback
    cb_frame,          \* the frame the callback is holding
    lp_pc,             \* position of each processing-loop thread ("off": none)
    lp_frame,          \* the frame each loop thread has popped
    is_recognizing,    \* AzureSTT._is_recognizing
    stt_pushed,        \* frames written to the recognizer's push stream
    \* ---- history (not program state) ----
    cb_last2,          \* the last two session callbacks fired by the key handler
    start_seq,         \* value of captured when the last session start was signaled
    sess_age,          \* time since the key-down that started the last session
    calls,             \* collaborator calls made by the handlers of the last session
    route_ok,          \* both mute calls of the last set_ptt_mode succeeded
    cleared,           \* frames removed so far by the buffer clear under way
    tail_age,          \* time since the release handler stopped the capture stream
    ev,                \* the key edge handled last
    kd_age,            \* time since the last key-down edge handled
    kd_fired,          \* whether that edge fired on_pressed ("none": no edge yet)
    dropped,           \* the callback has dropped a frame on a full buffer
    \* ---- setup, stop and playback ----
    mic_dev,           \* device of input_stream: "unset", "named", "default"
    tts_dev,           \* device of output_stream: "unset", "named", "default"
    out_stream,        \* AudioOutputStream.stream: "none", "active"
    stop_pc,           \* position of the thread that runs stop()
    \* ---- translations ----
    translation_queue, \* AzureSTT._translation_queue (numbers of the results)
    emitted,           \* results the recognizer has emitted so far
    lp_tr,             \* the translation each loop thread has read (0: none)
    \* ---- history (not program state) ----
    released,          \* resources whose release the last stop() has attempted
    stop_raised,       \* the last stop() was left by an exception
    stale,             \* loop threads alive when stop() last cleared _running
    api,               \* the last call of start() or stop() and what it did
    synthesized,       \* translations handed to synthesize_to_pcm48, in order
    played,            \* translations written to the output stream, in order
    failed,            \* what has failed in the processing loop so far
    \* ---- the components by themselves ----
    max_retries,       \* VoicemeeterController.max_retries
    vm_pc,             \* position of the thread inside a call of the controller
    attempt,           \* the loop variable of connect()
    vm_ret,            \* what the last call of the controller returned
    logins,            \* login attempts made by the last connect()
    max_samples,       \* TimingStats.max_samples
    samples,           \* TimingStats.samples
    added,             \* every sample added to the tracker so far, in order
    last_call,         \* the last call of a function of the library, with its result
    \* ---- the command line ----
    cli_pc,            \* position of the main thread inside cmd_run_ptt
    exit_code          \* what cmd_run_ptt returned: {} before it returns

lifeVars == << setup_done, running, hook_active >>
mixVars  == << connected, strip_mute >>
capVars  == << stream, captured, cb_pc, cb_frame >>
loopVars == << lp_pc, lp_frame, lp_tr >>
sttVars  == << is_recognizing, stt_pushed >>
keyHist  == << ev, kd_age, kd_fired >>
sessHist == << cb_last2, start_seq, sess_age >>
hdlHist  == << calls, route_ok, cleared, tail_age >>
bufHist  == << dropped >>
devVars  == << mic_dev, tts_dev >>
stopVars == << stop_pc, released, stop_raised, stale >>
trVars   == << translation_queue, emitted, synthesized, played, failed >>
statVars == << max_samples, samples, added >>
compVars == << max_retries, vm_pc, attempt, vm_ret, logins, statVars, last_call >>
cliVars  == << cli_pc, exit_code >>
unitVars == << compVars, cliVars >>
extVars  == << devVars, out_stream, stopVars, trVars, api, unitVars >>

vars == << lifeVars, pressed, elapsed, hk_pc, ptt_active, mixVars, audio_buffer_48k,
           capVars, loopVars, sttVars, keyHist, sessHist, hdlHist, bufHist, extVars >>

NoEdge == [type |-> "none", was_pressed |-> FALSE, passed |-> FALSE, fired |-> FALSE,
           gap |-> "-", prev_fired |-> FALSE, quick |-> FALSE]

\* The state after PTTPipeline.__init__.  _last_event_time is 0, so the first
\* key event is far beyond the debounce window; the mixer's strips are as the
\* user left them.
InitBase ==
    /\ setup_done = FALSE
    /\ running = FALSE
    /\ hook_active = FALSE
    /\ pressed = FALSE
    /\ elapsed = AgeCap
    /\ hk_pc = "idle"
    /\ ptt_active = FALSE
    /\ connected = FALSE
    /\ strip_mute \in [{strip_mic, strip_tts} -> BOOLEAN]
    /\ audio_buffer_48k = << >>
    /\ stream = "none"
    /\ captured = 0
    /\ cb_pc = "idle"
    /\ cb_frame = 0
    /\ lp_pc = [t \in Threads |-> "off"]
    /\ lp_frame = [t \in Threads |-> 0]
    /\ is_recognizing = FALSE
    /\ stt_pushed = << >>
    /\ cb_last2 = << "none", "none" >>
    /\ start_seq = 0
    /\ sess_age = debounce_ms
    /\ calls = << >>
    /\ route_ok = FALSE
    /\ cleared = 0
    /\ tail_age = TailMs
    /\ ev = NoEdge
    /\ kd_age = AgeCap
    /\ kd_fired = "none"
    /\ dropped = FALSE
    /\ mic_dev = "unset"
    /\ tts_dev = "unset"
    /\ out_stream = "none"
    /\ stop_pc = "idle"
    /\ translation_queue = << >>
    /\ emitted = 0
    /\ lp_tr = [t \in Threads |-> 0]
    /\ released = {}
    /\ stop_raised = FALSE
    /\ stale = {}
    /\ api = "none"
    /\ synthesized = << >>
    /\ played = << >>
    /\ failed = {}
    /\ max_retries = DefaultMaxRetries
    /\ vm_pc = "idle"
    /\ attempt = 0
    /\ vm_ret = "none"
    /\ logins = 0
    /\ max_samples = DefaultMaxSamples
    /\ samples = << >>
    /\ added = << >>
    /\ cli_pc = "none"
    /\ exit_code = {}

\* the state after construction: no library function has been called
Init == InitBase /\ last_call = [fn |-> "none"]

\* ---------------------------------------------------------------------------
\* PTTPipeline.setup / start
\* ---------------------------------------------------------------------------

\* the device a stream is created with: find_device_by_name returns None for a
\* configured name that matches no device, and None selects the default device
ResolveDevice(found) == IF found THEN "named" ELSE "default"

\* setup(): connect the mixer, build the recognition and synthesis clients,
\* look up the configured devices, create the streams, subscribe the handlers.
\* A step that fails returns False at once; what was acquired before it stays
\* as it is.  A device that is not found is a warning.
SetupSteps(vm_ok, clients_ok, mic_found, tts_found) ==
    /\ ~setup_done /\ ~running
    /\ connected' = (connected \/ vm_ok)
    /\ setup_done' = (vm_ok /\ clients_ok)
    /\ IF vm_ok /\ clients_ok
       THEN /\ mic_dev' = ResolveDevice(mic_found)
            /\ tts_dev' = ResolveDevice(tts_found)
       ELSE UNCHANGED devVars
    /\ UNCHANGED << running, hook_active, pressed, elapsed, hk_pc, ptt_active,
                    strip_mute, audio_buffer_48k, capVars, loopVars, sttVars,
                    keyHist, sessHist, hdlHist, bufHist,
                    out_stream, stopVars, trVars, api >>

\* setup() called by itself
DoSetup(vm_ok, clients_ok, mic_found, tts_found) ==
    SetupSteps(vm_ok, clients_ok, mic_found, tts_found) /\ UNCHANGED unitVars

\* setup() on a machine that has the configured devices
Setup == \E vm_ok, clients_ok \in BOOLEAN : DoSetup(vm_ok, clients_ok, TRUE, TRUE)

\* setup() on any machine
SetupAnyDevice ==
    \E vm_ok, clients_ok, mic_found, tts_found \in BOOLEAN :
        DoSetup(vm_ok, clients_ok, mic_found, tts_found)

\* threading.Thread(target=self._processing_loop): a thread that is not running
FreeThreads == { t \in Threads : lp_pc[t] = "off" }
NewThread == CHOOSE t \in FreeThreads : \A u \in FreeThreads : t <= u

\* (mutant) start() does not look at the running flag
AlreadyRunning_Never(r) == FALSE

\* if self._running: return
AlreadyRunning(r) == r

\* PTTHandler.start(): nothing when the hook is installed; otherwise the hook
\* is installed, or _active stays False when that fails
HandlerStart(active, hook_ok) == active \/ hook_ok

\* start(): returns when the pipeline runs; otherwise sets _running, starts a
\* processing thread and starts the key handler.  Called on the thread that
\* also calls stop().
StartPipeline ==
    /\ setup_done
    /\ stop_pc = "idle"
    /\ IF AlreadyRunning(running)
       THEN /\ api' = "start_noop"
            /\ UNCHANGED << running, hook_active, lp_pc >>
       ELSE /\ FreeThreads # {}
            /\ api' = "start"
            /\ running' = TRUE
            /\ lp_pc' = [lp_pc EXCEPT ![NewThread] = "top"]
            /\ \E hook_ok \in BOOLEAN : hook_active' = HandlerStart(hook_active, hook_ok)
    /\ UNCHANGED << setup_done, pressed, elapsed, hk_pc, ptt_active, mixVars,
                    audio_buffer_48k, capVars, lp_frame, lp_tr, sttVars,
                    keyHist, sessHist, hdlHist, bufHist,
                    devVars, out_stream, stopVars, trVars,
                    unitVars >>

\* the start() that __enter__ makes after setup()
Start == ~running /\ StartPipeline

\* ---------------------------------------------------------------------------
\* The statements of the session handlers, in the order of the source
\* ---------------------------------------------------------------------------

\* (mutant) the session start ends with the routing call
PressedSteps_RouteOnly == << "p_route" >>

\* (mutant) capture is started before the routing is switched
PressedSteps_CaptureFirst == << "p_capture", "p_route", "p_clear", "p_stt" >>

\* (mutant) the buffer is cleared after capture has been started
PressedSteps_ClearLast == << "p_route", "p_capture", "p_clear", "p_stt" >>

\* _on_ptt_pressed after the flag: set_ptt_mode, the buffer clear,
\* input_stream.start, stt.start
PressedSteps == << "p_route", "p_clear", "p_capture", "p_stt" >>

\* (mutant) recognition is stopped at once, before capture and the tail
ReleasedSteps_SttFirst == << "r_stt", "r_capture", "r_sleep" >>

\* _on_ptt_released after the flag: input_stream.stop, sleep, stt.stop
ReleasedSteps == << "r_capture", "r_sleep", "r_stt" >>

\* the statement after pc in a handler; "idle" when the handler returns
StepAfter(steps, pc) ==
    IF \E i \in 1..(Len(steps) - 1) : steps[i] = pc
    THEN steps[(CHOOSE i \in 1..(Len(steps) - 1) : steps[i] = pc) + 1]
    ELSE "idle"

\* ---------------------------------------------------------------------------
\* PTTHandler._handle_key_event
\* ---------------------------------------------------------------------------

\* the debounce test: current_time - self._last_event_time < self.debounce_ms
Debounced(since_last_event) == since_last_event < debounce_ms

\* event.event_type == 'down' and not self._pressed
IsPress(type, p) == type = "down" /\ ~p

\* (mutant) a key-up ends a session whether or not one is running
IsRelease_AnyUp(type, p) == type = "up"

\* event.event_type == 'up' and self._pressed
IsRelease(type, p) == type = "up" /\ p

\* the distance of two key-down edges against the debounce window
GapClass(d) == IF d < debounce_ms THEN "lt"
               ELSE IF d = debounce_ms THEN "eq" ELSE "gt"

\* History of the key edge just handled, as the handler saw it: for a key-down
\* its distance to the key-down edge before it ("first" when there was none)
\* and whether that one fired on_pressed; for a key-up whether it came within
\* the debounce window after the key-down that started the session.
RecordEdge(type, ka, sa, passed, fired) ==
    /\ ev' = [type |-> type,
              was_pressed |-> pressed,
              passed |-> passed,
              fired |-> fired,
              gap |-> IF type = "up" THEN "-"
                      ELSE IF kd_fired = "none" THEN "first" ELSE GapClass(ka),
              prev_fired |-> type = "down" /\ kd_fired = "yes",
              quick |-> type = "up" /\ pressed /\ sa < debounce_ms]
    /\ kd_age' = IF type = "down" THEN 0 ELSE ka
    /\ kd_fired' = IF type = "down" THEN (IF fired THEN "yes" ELSE "no") ELSE kd_fired

Fired(cb) == << cb_last2[2], cb >>

\* One key event, handled under self._lock d ms after the hotkey thread became
\* idle: the debounce test, the update of _last_event_time, and the transition.
\* on_pressed and on_released run inside the handler; their first statement
\* (the _ptt_active flag) is part of this step and the rest follows at hk_pc.
HandleKeyEvent(type, d) ==
    /\ hook_active
    /\ hk_pc = "idle"
    /\ LET e  == Advance(elapsed, d, AgeCap)
           ka == Advance(kd_age, d, AgeCap)
           sa == Advance(sess_age, d, debounce_ms)
       IN  IF Debounced(e)
           THEN /\ elapsed' = e
                /\ sess_age' = sa
                /\ RecordEdge(type, ka, sa, FALSE, FALSE)
                /\ UNCHANGED << pressed, hk_pc, ptt_active, cb_last2, start_seq,
                                calls >>
           ELSE /\ elapsed' = 0
                /\ IF IsPress(type, pressed)
                   THEN /\ pressed' = TRUE
                        /\ ptt_active' = TRUE
                        /\ hk_pc' = PressedSteps[1]
                        /\ cb_last2' = Fired("start")
                        /\ start_seq' = captured
                        /\ sess_age' = 0
                        /\ calls' = << >>
                        /\ RecordEdge(type, ka, sa, TRUE, TRUE)
                   ELSE IF IsRelease(type, pressed)
                   THEN /\ pressed' = FALSE
                        /\ ptt_active' = FALSE
                        /\ hk_pc' = ReleasedSteps[1]
                        /\ cb_last2' = Fired("end")
                        /\ sess_age' = sa
                        /\ RecordEdge(type, ka, sa, TRUE, TRUE)
                        /\ UNCHANGED << start_seq, calls >>
                   ELSE /\ sess_age' = sa
                        /\ RecordEdge(type, ka, sa, TRUE, FALSE)
                        /\ UNCHANGED << pressed, hk_pc, ptt_active, cb_last2,
                                        start_seq, calls >>
    /\ UNCHANGED << lifeVars, mixVars, audio_buffer_48k, capVars, loopVars, sttVars,
                    route_ok, cleared, tail_age, bufHist,
                    extVars >>

\* the times after which a key event can follow: at once, within the debounce
\* window, at its end, beyond it
Delays == { 0, TickMs, 2 * TickMs, 3 * TickMs }

KeyDown == \E d \in Delays : HandleKeyEvent("down", d)
KeyUp   == \E d \in Delays : HandleKeyEvent("up", d)

\* ---------------------------------------------------------------------------
\* VoicemeeterController.set_ptt_mode / mute_strip
\* ---------------------------------------------------------------------------

\* (mutant) the strip is set without a look at the connection
MuteStrip_Unconnected(mutes, conn, index, mute, ok) ==
    IF ok THEN [mutes EXCEPT ![index] = mute] ELSE mutes

\* mute_strip(index, mute): False and no change when not connected or when the
\* remote call raises (ok = FALSE); otherwise the strip takes the value.
MuteStrip(mutes, conn, index, mute, ok) ==
    IF conn /\ ok THEN [mutes EXCEPT ![index] = mute] ELSE mutes

\* set_ptt_mode(pressed, strip_mic, strip_tts): pressed mutes the mic strip and
\* unmutes the synthesized-voice strip, released does the reverse; each mute
\* call may fail on its own.
SetPttMode(mutes, conn, is_pressed, ok_mic, ok_tts) ==
    MuteStrip(MuteStrip(mutes, conn, strip_mic, is_pressed, ok_mic),
              conn, strip_tts, ~is_pressed, ok_tts)

\* ---------------------------------------------------------------------------
\* PTTPipeline._on_ptt_pressed (after self._ptt_active = True)
\* ---------------------------------------------------------------------------

\* self.vm_ctrl.set_ptt_mode(pressed=True, ...)
PressedRoute ==
    /\ hk_pc = "p_route"
    /\ \E ok_mic, ok_tts \in BOOLEAN :
          /\ strip_mute' = SetPttMode(strip_mute, connected, TRUE, ok_mic, ok_tts)
          /\ route_ok' = (connected /\ ok_mic /\ ok_tts)
    /\ calls' = Append(calls, "set_ptt_mode")
    /\ cleared' = 0
    /\ hk_pc' = StepAfter(PressedSteps, "p_route")
    /\ UNCHANGED << lifeVars, pressed, elapsed, ptt_active, connected,
                    audio_buffer_48k, capVars, loopVars, sttVars, keyHist, sessHist,
                    tail_age, bufHist,
                    extVars >>

\* while not self.audio_buffer_48k.empty(): get_nowait()   (one round per step)
PressedClear ==
    /\ hk_pc = "p_clear"
    /\ IF audio_buffer_48k # << >>
       THEN /\ audio_buffer_48k' = Tail(audio_buffer_48k)
            /\ cleared' = cleared + 1
            /\ UNCHANGED hk_pc
       ELSE /\ hk_pc' = StepAfter(PressedSteps, "p_clear")
            /\ cleared' = 0
            /\ UNCHANGED audio_buffer_48k
    /\ UNCHANGED << lifeVars, pressed, elapsed, ptt_active, mixVars, capVars,
                    loopVars, sttVars, keyHist, sessHist, calls, route_ok, tail_age,
                    bufHist,
                    extVars >>

\* AudioInputStream.start(): nothing when a stream object exists; otherwise the
\* stream is opened and started.  Opening can raise (stream stays None) and
\* starting can raise (the object stays, not started).
InputStreamStart(st, outcome) ==
    IF st # "none" THEN st
    ELSE IF outcome = "ok" THEN "active"
    ELSE IF outcome = "start_raises" THEN "open" ELSE "none"

StartRaises(st, outcome) == st = "none" /\ outcome # "ok"

\* self.input_stream.start(); an exception leaves on_pressed and is caught in
\* _handle_key_event
PressedCapture ==
    /\ hk_pc = "p_capture"
    /\ \E outcome \in {"ok", "open_raises", "start_raises"} :
          /\ stream' = InputStreamStart(stream, outcome)
          /\ hk_pc' = IF StartRaises(stream, outcome) THEN "idle"
                       ELSE StepAfter(PressedSteps, "p_capture")
    /\ calls' = Append(calls, "input_stream.start")
    /\ UNCHANGED << lifeVars, pressed, elapsed, ptt_active, mixVars,
                    audio_buffer_48k, captured, cb_pc, cb_frame, loopVars, sttVars,
                    keyHist, sessHist, route_ok, cleared, tail_age, bufHist,
                    extVars >>

\* AzureSTT.start(): nothing when already recognizing; otherwise the recognizer
\* is created and started, or raises with _is_recognizing still False.
SttStart(recognizing, ok) == recognizing \/ ok

\* self.stt.start()
PressedStt ==
    /\ hk_pc = "p_stt"
    /\ \E ok \in BOOLEAN : is_recognizing' = SttStart(is_recognizing, ok)
    /\ calls' = Append(calls, "stt.start")
    /\ hk_pc' = StepAfter(PressedSteps, "p_stt")
    /\ UNCHANGED << lifeVars, pressed, elapsed, ptt_active, mixVars,
                    audio_buffer_48k, capVars, loopVars, stt_pushed, keyHist,
                    sessHist, route_ok, cleared, tail_age, bufHist,
                    extVars >>

\* ---------------------------------------------------------------------------
\* PTTPipeline._on_ptt_released (after self._ptt_active = False)
\* ---------------------------------------------------------------------------

\* self.input_stream.stop(): stops and closes the stream; returns once the
\* callback that is running has returned.
ReleasedCapture ==
    /\ hk_pc = "r_capture"
    /\ cb_pc = "idle"
    /\ stream' = "none"
    /\ calls' = Append(calls, "input_stream.stop")
    /\ tail_age' = 0
    /\ hk_pc' = StepAfter(ReleasedSteps, "r_capture")
    /\ UNCHANGED << lifeVars, pressed, elapsed, ptt_active, mixVars,
                    audio_buffer_48k, captured, cb_pc, cb_frame, loopVars, sttVars,
                    keyHist, sessHist, route_ok, cleared, bufHist,
                    extVars >>

\* time.sleep(0.3)
ReleasedSleep ==
    /\ hk_pc = "r_sleep"
    /\ elapsed' = Advance(elapsed, TailMs, AgeCap)
    /\ kd_age' = Advance(kd_age, TailMs, AgeCap)
    /\ sess_age' = Advance(sess_age, TailMs, debounce_ms)
    /\ tail_age' = Advance(tail_age, TailMs, TailMs)
    /\ hk_pc' = StepAfter(ReleasedSteps, "r_sleep")
    /\ UNCHANGED << lifeVars, pressed, ptt_active, mixVars, audio_buffer_48k,
                    capVars, loopVars, sttVars, ev, kd_fired,
                    cb_last2, start_seq, calls, route_ok, cleared, bufHist,
                    extVars >>

\* self.stt.stop()
ReleasedStt ==
    /\ hk_pc = "r_stt"
    /\ is_recognizing' = FALSE
    /\ calls' = Append(calls, "stt.stop")
    /\ hk_pc' = StepAfter(ReleasedSteps, "r_stt")
    /\ UNCHANGED << lifeVars, pressed, elapsed, ptt_active, mixVars,
                    audio_buffer_48k, capVars, loopVars, stt_pushed, keyHist,
                    sessHist, route_ok, cleared, tail_age, bufHist,
                    extVars >>

\* ---------------------------------------------------------------------------
\* PTTPipeline._on_audio_captured, on the audio thread
\* ---------------------------------------------------------------------------

\* (mutant) a queue without a bound
PutNowait_Unbounded(q, f) == Append(q, f)

\* (mutant) on a full queue the oldest frame makes room for the new one
PutNowait_DropOldest(q, f) ==
    IF Len(q) < maxsize THEN Append(q, f) ELSE Append(Tail(q), f)

\* put_nowait: appends unless the queue is full (queue.Full: the frame is dropped)
PutNowait(q, f) == IF Len(q) < maxsize THEN Append(q, f) ELSE q

\* The stream delivers a frame: if not self._ptt_active: return
CapturedTest ==
    /\ stream = "active"
    /\ cb_pc = "idle"
    /\ captured < MaxFrames
    /\ captured' = captured + 1
    /\ IF ptt_active
       THEN cb_pc' = "put" /\ cb_frame' = captured + 1
       ELSE UNCHANGED << cb_pc, cb_frame >>
    /\ UNCHANGED << lifeVars, pressed, elapsed, hk_pc, ptt_active, mixVars,
                    audio_buffer_48k, stream, loopVars, sttVars, keyHist, sessHist,
                    hdlHist, bufHist,
                    extVars >>

\* self.audio_buffer_48k.put_nowait(frame.copy())
CapturedPut ==
    /\ cb_pc = "put"
    /\ audio_buffer_48k' = PutNowait(audio_buffer_48k, cb_frame)
    /\ dropped' = (dropped \/ Len(audio_buffer_48k) >= maxsize)
    /\ cb_pc' = "idle"
    /\ cb_frame' = 0
    /\ UNCHANGED << lifeVars, pressed, elapsed, hk_pc, ptt_active, mixVars, stream,
                    captured, loopVars, sttVars, keyHist, sessHist, hdlHist,
                    extVars >>

\* ---------------------------------------------------------------------------
\* PTTPipeline._processing_loop, on its own thread
\* ---------------------------------------------------------------------------

\* (mutant) translations are polled only while a session is active
IdlePoll_Skip == "top"

\* self._check_translation_results() stands after the if, not inside it: an
\* iteration outside a session goes to the translation poll
IdlePoll == "tr"

\* while self._running: ... if self._ptt_active: self._process_captured_audio()
LoopTop(t) ==
    /\ lp_pc[t] = "top"
    /\ lp_pc' = [lp_pc EXCEPT ![t] = IF ~running THEN "off"
                                     ELSE IF ptt_active THEN "get" ELSE IdlePoll]
    /\ stale' = IF ~running THEN stale \ { t } ELSE stale
    /\ UNCHANGED << lifeVars, pressed, elapsed, hk_pc, ptt_active, mixVars,
                    audio_buffer_48k, capVars, lp_frame, lp_tr, sttVars, keyHist, sessHist,
                    hdlHist, bufHist, devVars, out_stream, stop_pc, released,
                    stop_raised, trVars, api,
                    unitVars >>

\* audio_48k = self.audio_buffer_48k.get(timeout=0.01); queue.Empty is passed over
LoopGet(t) ==
    /\ lp_pc[t] = "get"
    /\ IF audio_buffer_48k # << >>
       THEN /\ lp_frame' = [lp_frame EXCEPT ![t] = Head(audio_buffer_48k)]
            /\ audio_buffer_48k' = Tail(audio_buffer_48k)
            /\ lp_pc' = [lp_pc EXCEPT ![t] = "push"]
       ELSE /\ lp_pc' = [lp_pc EXCEPT ![t] = "tr"]
            /\ UNCHANGED << lp_frame, audio_buffer_48k >>
    /\ UNCHANGED << lifeVars, pressed, elapsed, hk_pc, ptt_active, mixVars, capVars,
                    sttVars, keyHist, sessHist, hdlHist, bufHist,
                    extVars, lp_tr >>

\* AzureSTT.push_pcm16_16k: written to the push stream when recognizing,
\* otherwise dropped with a warning
PushPcm(pushed, recognizing, f) == IF recognizing THEN Append(pushed, f) ELSE pushed

\* (mutant) an exception in an iteration ends the processing loop
OnLoopError_Exit == "off"

\* except Exception in _processing_loop: logged, the while loop goes on
OnLoopError == "top"

\* downsample and self.stt.push_pcm16_16k(...).  The downsampling can raise
\* into the except of the loop; a failed write to the push stream is caught
\* and logged in push_pcm16_16k.  Either way the frame is gone.
DoLoopPush(t, outcome) ==
    /\ lp_pc[t] = "push"
    /\ stt_pushed' = IF outcome = "ok"
                      THEN PushPcm(stt_pushed, is_recognizing, lp_frame[t])
                      ELSE stt_pushed
    /\ lp_frame' = [lp_frame EXCEPT ![t] = 0]
    /\ lp_pc' = [lp_pc EXCEPT ![t] = IF outcome = "downsample_raises"
                                     THEN OnLoopError ELSE "tr"]
    /\ failed' = IF outcome = "ok" THEN failed ELSE failed \cup { "frame" }
    /\ UNCHANGED << lifeVars, pressed, elapsed, hk_pc, ptt_active, mixVars,
                    audio_buffer_48k, capVars, is_recognizing, keyHist, sessHist,
                    hdlHist, bufHist, devVars, out_stream, stopVars,
                    translation_queue, emitted, synthesized, played, api, lp_tr,
                    unitVars >>

\* the frame is downsampled and written
LoopPush(t) == DoLoopPush(t, "ok")

\* the frame is forwarded or lost to a failure
LoopPushAny(t) ==
    \E outcome \in { "ok", "downsample_raises", "write_raises" } : DoLoopPush(t, outcome)

\* (mutant) the result is read and left on the queue
ReadTranslation_Peek(q) == q

\* self._translation_queue.get(timeout=...): the queue after the read
ReadTranslation(q) == Tail(q)

\* translation = self.stt.read_translation(timeout_ms=10); without a result
\* the iteration ends with time.sleep(0.01)
LoopTr(t) ==
    /\ lp_pc[t] = "tr"
    /\ IF translation_queue # << >>
       THEN /\ lp_tr' = [lp_tr EXCEPT ![t] = Head(translation_queue)]
            /\ translation_queue' = ReadTranslation(translation_queue)
            /\ lp_pc' = [lp_pc EXCEPT ![t] = "synth"]
       ELSE /\ lp_pc' = [lp_pc EXCEPT ![t] = "top"]
            /\ UNCHANGED << lp_tr, translation_queue >>
    /\ UNCHANGED << lifeVars, pressed, elapsed, hk_pc, ptt_active, mixVars,
                    audio_buffer_48k, capVars, lp_frame, sttVars, keyHist, sessHist,
                    hdlHist, bufHist, devVars, out_stream, stopVars, emitted,
                    synthesized, played, failed, api,
                    unitVars >>

\* audio_pcm48 = self.tts.synthesize_to_pcm48(translation): the audio, or None
\* after a cancelled or failed synthesis; without audio the iteration ends
LoopSynth(t) ==
    /\ lp_pc[t] = "synth"
    /\ synthesized' = Append(synthesized, lp_tr[t])
    /\ \E ok \in BOOLEAN :
          IF ok
          THEN /\ lp_pc' = [lp_pc EXCEPT ![t] = "play"]
               /\ UNCHANGED << lp_tr, failed >>
          ELSE /\ lp_pc' = [lp_pc EXCEPT ![t] = "top"]
               /\ lp_tr' = [lp_tr EXCEPT ![t] = 0]
               /\ failed' = failed \cup { "synthesis" }
    /\ UNCHANGED << lifeVars, pressed, elapsed, hk_pc, ptt_active, mixVars,
                    audio_buffer_48k, capVars, lp_frame, sttVars, keyHist, sessHist,
                    hdlHist, bufHist, devVars, out_stream, stopVars,
                    translation_queue, emitted, played, api,
                    unitVars >>

\* AudioOutputStream.start(): as for the input stream
OutputStreamStart(st, outcome) ==
    IF st # "none" THEN st
    ELSE IF outcome = "ok" THEN "active"
    ELSE IF outcome = "start_raises" THEN "open" ELSE "none"

\* AudioOutputStream.write reaches the device: the stream is started and the
\* write does not raise
Written(st, write_ok) == st = "active" /\ write_ok

\* self._play_audio(audio_pcm48): the output stream is started when there is
\* no stream object, the audio is written; any exception is caught and logged
LoopPlay(t) ==
    /\ lp_pc[t] = "play"
    /\ \E outcome \in { "ok", "open_raises", "start_raises" }, write_ok \in BOOLEAN :
          /\ out_stream' = OutputStreamStart(out_stream, outcome)
          /\ IF Written(out_stream', write_ok)
             THEN played' = Append(played, lp_tr[t]) /\ UNCHANGED failed
             ELSE failed' = failed \cup { "playback" } /\ UNCHANGED played
    /\ lp_tr' = [lp_tr EXCEPT ![t] = 0]
    /\ lp_pc' = [lp_pc EXCEPT ![t] = "top"]
    /\ UNCHANGED << lifeVars, pressed, elapsed, hk_pc, ptt_active, mixVars,
                    audio_buffer_48k, capVars, lp_frame, sttVars, keyHist, sessHist,
                    hdlHist, bufHist, devVars, stopVars, translation_queue, emitted,
                    synthesized, api,
                    unitVars >>

\* AzureSTT._on_recognized, on a thread of the speech SDK: a recognized
\* utterance with a translation is put on the translation queue
Recognized ==
    /\ is_recognizing
    /\ stt_pushed # << >>
    /\ emitted < MaxResults
    /\ emitted' = emitted + 1
    /\ translation_queue' = Append(translation_queue, emitted + 1)
    /\ UNCHANGED << lifeVars, pressed, elapsed, hk_pc, ptt_active, mixVars,
                    audio_buffer_48k, capVars, loopVars, sttVars, keyHist, sessHist,
                    hdlHist, bufHist, devVars, out_stream, stopVars, synthesized,
                    played, failed, api,
                    unitVars >>

\* ---------------------------------------------------------------------------
\* PTTPipeline.stop, on the thread that called start()
\* ---------------------------------------------------------------------------

\* if not self._running: return
NotRunning(r) == ~r

\* stop(): returns when the pipeline does not run; otherwise clears _running
\* and goes through the releases one after the other
StopPipeline ==
    /\ stop_pc = "idle"
    /\ IF NotRunning(running)
       THEN /\ api' = "stop_noop"
            /\ UNCHANGED << running, stopVars >>
       ELSE /\ api' = "stop"
            /\ running' = FALSE
            /\ stop_pc' = "s_ptt"
            /\ released' = {}
            /\ stop_raised' = FALSE
            /\ stale' = { t \in Threads : lp_pc[t] # "off" }
    /\ UNCHANGED << setup_done, hook_active, pressed, elapsed, hk_pc, ptt_active,
                    mixVars, audio_buffer_48k, capVars, loopVars, sttVars, keyHist,
                    sessHist, hdlHist, bufHist, devVars, out_stream, trVars,
                    unitVars >>

\* self.ptt_handler.stop(): nothing when the hook is not installed; otherwise
\* unhook and reset _active and _pressed; an exception is caught and logged
StopPtt ==
    /\ stop_pc = "s_ptt"
    /\ \E ok \in BOOLEAN :
          IF hook_active /\ ok
          THEN hook_active' = FALSE /\ pressed' = FALSE
          ELSE UNCHANGED << hook_active, pressed >>
    /\ released' = released \cup { "hook" }
    /\ stop_pc' = "s_in"
    /\ UNCHANGED << setup_done, running, elapsed, hk_pc, ptt_active, mixVars,
                    audio_buffer_48k, capVars, loopVars, sttVars, keyHist, sessHist,
                    hdlHist, bufHist, devVars, out_stream, stop_raised, stale, trVars, api,
                    unitVars >>

\* self.input_stream.stop(): nothing without a stream object; otherwise the
\* stream is stopped and closed, or the exception of the audio library leaves
\* stop() at this line
StopInput ==
    /\ stop_pc = "s_in"
    /\ released' = released \cup { "input" }
    /\ IF stream = "none"
       THEN /\ stop_pc' = "s_out"
            /\ UNCHANGED << stream, stop_raised >>
       ELSE /\ cb_pc = "idle"
            /\ \E ok \in BOOLEAN :
                  IF ok
                  THEN /\ stream' = "none"
                       /\ stop_pc' = "s_out"
                       /\ UNCHANGED stop_raised
                  ELSE /\ stop_pc' = "idle"
                       /\ stop_raised' = TRUE
                       /\ UNCHANGED stream
    /\ UNCHANGED << lifeVars, pressed, elapsed, hk_pc, ptt_active, mixVars,
                    audio_buffer_48k, captured, cb_pc, cb_frame, loopVars, sttVars,
                    keyHist, sessHist, hdlHist, bufHist, devVars, out_stream,
                    stale, trVars, api,
                    unitVars >>

\* self.output_stream.stop(): as for the input stream
StopOutput ==
    /\ stop_pc = "s_out"
    /\ released' = released \cup { "output" }
    /\ IF out_stream = "none"
       THEN /\ stop_pc' = "s_stt"
            /\ UNCHANGED << out_stream, stop_raised >>
       ELSE \E ok \in BOOLEAN :
                IF ok
                THEN /\ out_stream' = "none"
                     /\ stop_pc' = "s_stt"
                     /\ UNCHANGED stop_raised
                ELSE /\ stop_pc' = "idle"
                     /\ stop_raised' = TRUE
                     /\ UNCHANGED out_stream
    /\ UNCHANGED << lifeVars, pressed, elapsed, hk_pc, ptt_active, mixVars,
                    audio_buffer_48k, capVars, loopVars, sttVars, keyHist, sessHist,
                    hdlHist, bufHist, devVars, stale, trVars, api,
                    unitVars >>

\* self.stt.stop(): nothing when not recognizing; otherwise the recognizer is
\* stopped, or its exception leaves stop() at this line
StopStt ==
    /\ stop_pc = "s_stt"
    /\ released' = released \cup { "stt" }
    /\ IF ~is_recognizing
       THEN /\ stop_pc' = "s_vm"
            /\ UNCHANGED << is_recognizing, stop_raised >>
       ELSE \E ok \in BOOLEAN :
                IF ok
                THEN /\ is_recognizing' = FALSE
                     /\ stop_pc' = "s_vm"
                     /\ UNCHANGED stop_raised
                ELSE /\ stop_pc' = "idle"
                     /\ stop_raised' = TRUE
                     /\ UNCHANGED is_recognizing
    /\ UNCHANGED << lifeVars, pressed, elapsed, hk_pc, ptt_active, mixVars,
                    audio_buffer_48k, capVars, loopVars, stt_pushed, keyHist,
                    sessHist, hdlHist, bufHist, devVars, out_stream, stale, trVars,
                    api,
                    unitVars >>

\* self.vm_ctrl.disconnect(): logout when connected; an exception is caught
\* and logged and leaves the controller connected
StopMixer ==
    /\ stop_pc = "s_vm"
    /\ released' = released \cup { "mixer" }
    /\ \E ok \in BOOLEAN : connected' = (connected /\ ~ok)
    /\ stop_pc' = "idle"
    /\ UNCHANGED << lifeVars, pressed, elapsed, hk_pc, ptt_active, strip_mute,
                    audio_buffer_48k, capVars, loopVars, sttVars, keyHist, sessHist,
                    hdlHist, bufHist, devVars, out_stream, stop_raised, stale, trVars, api,
                    unitVars >>

\* ---------------------------------------------------------------------------
\* The pipeline from construction on, while it runs
\* ---------------------------------------------------------------------------
Next ==
    \/ Setup
    \/ Start
    \/ KeyDown
    \/ KeyUp
    \/ PressedRoute
    \/ PressedClear
    \/ PressedCapture
    \/ PressedStt
    \/ ReleasedCapture
    \/ ReleasedSleep
    \/ ReleasedStt
    \/ CapturedTest
    \/ CapturedPut
    \/ \E t \in Threads : LoopTop(t)
    \/ \E t \in Threads : LoopGet(t)
    \/ \E t \in Threads : LoopPush(t)
    \/ \E t \in Threads : LoopTr(t)

Spec == Init /\ [][Next]_vars

\* ---------------------------------------------------------------------------
\* One session with its translations, and the failures of the processing loop
\* ---------------------------------------------------------------------------

\* the mixer as the pipeline leaves it between sessions: microphone strip
\* open, synthesized-voice strip muted
InitStop == Init /\ ~strip_mute[strip_mic] /\ strip_mute[strip_tts]

\* the first key-down, long after the handler was created
KeyDownOnce == kd_fired = "none" /\ HandleKeyEvent("down", 3 * TickMs)

\* a key-up that comes after the debounce window
KeyUpLate == HandleKeyEvent("up", 3 * TickMs)

NextTr ==
    \/ Setup
    \/ Start
    \/ KeyDownOnce
    \/ KeyUpLate
    \/ PressedRoute
    \/ PressedClear
    \/ PressedCapture
    \/ PressedStt
    \/ ReleasedCapture
    \/ ReleasedSleep
    \/ ReleasedStt
    \/ CapturedTest
    \/ CapturedPut
    \/ Recognized
    \/ \E t \in Threads : LoopTop(t)
    \/ \E t \in Threads : LoopGet(t)
    \/ \E t \in Threads : LoopPushAny(t)
    \/ \E t \in Threads : LoopTr(t)
    \/ \E t \in Threads : LoopSynth(t)
    \/ \E t \in Threads : LoopPlay(t)

SpecTr == InitStop /\ [][NextTr]_vars

\* The same with the scheduling of the processing thread: the thread is never
\* starved, and the steps it takes by itself or under a timeout (the test of
\* the flag, the buffer pop, the downsampling and push, the translation poll)
\* come to an end.  synthesize_to_pcm48 and the write to the output stream
\* block until the collaborator returns, which nothing bounds.
SpecStall ==
    /\ SpecTr
    /\ \A t \in Threads : /\ WF_vars(LoopTop(t))
                           /\ WF_vars(LoopGet(t))
                           /\ WF_vars(LoopPushAny(t))
                           /\ WF_vars(LoopTr(t))

\* the next statement of a processing thread, whichever it is
LoopStep(t) ==
    \/ LoopTop(t) \/ LoopGet(t) \/ LoopPushAny(t)
    \/ LoopTr(t) \/ LoopSynth(t) \/ LoopPlay(t)

\* SpecTr when the thread is never starved and the collaborators answer: a
\* call of synthesize_to_pcm48 and a write to the output stream return, with
\* a result or with a failure, like the steps the thread takes by itself.
SpecFair == SpecTr /\ \A t \in Threads : WF_vars(LoopStep(t))

\* ---------------------------------------------------------------------------
\* The buffer alone: pushes of the capture callback during a session and pops
\* of the processing loop, in any order.  Frames carry the number of their push.
\* ---------------------------------------------------------------------------

\* every variable but the buffer and the count of frames
nonBufVars == << lifeVars, pressed, elapsed, hk_pc, ptt_active, mixVars, stream,
                 cb_pc, cb_frame, loopVars, sttVars, keyHist, sessHist, hdlHist,
                 bufHist, extVars >>

\* self.audio_buffer_48k.put_nowait(frame), queue.Full caught
BufPush ==
    /\ captured < MaxPushes
    /\ captured' = captured + 1
    /\ audio_buffer_48k' = PutNowait(audio_buffer_48k, captured + 1)
    /\ UNCHANGED nonBufVars

\* self.audio_buffer_48k.get(timeout=0.01) on a buffer that is not empty
BufPop ==
    /\ audio_buffer_48k # << >>
    /\ audio_buffer_48k' = Tail(audio_buffer_48k)
    /\ UNCHANGED << captured, nonBufVars >>

NextBuf == BufPush \/ BufPop

SpecBuf == Init /\ [][NextBuf]_vars

\* ---------------------------------------------------------------------------
\* VoicemeeterController by itself: created, connected, used and disconnected
\* in any order by one thread
\* ---------------------------------------------------------------------------

\* every variable but those of the controller and the strips of the mixer
nonMixerVars == << lifeVars, pressed, elapsed, hk_pc, ptt_active, audio_buffer_48k,
                   capVars, loopVars, sttVars, keyHist, sessHist, hdlHist, bufHist,
                   devVars, out_stream, stopVars, trVars, api, statVars,
                   cliVars >>

Ret(b) == IF b THEN "true" ELSE "false"

\* VoicemeeterController(kind, max_retries=m)
NewController ==
    /\ vm_pc = "idle"
    /\ \E m \in 0..MaxRetries : max_retries' = m
    /\ connected' = FALSE
    /\ attempt' = 0
    /\ logins' = 0
    /\ vm_ret' = "none"
    /\ last_call' = [fn |-> "new"]
    /\ UNCHANGED << vm_pc, strip_mute, nonMixerVars >>

\* connect() is entered
ConnectCall ==
    /\ vm_pc = "idle"
    /\ vm_pc' = "login"
    /\ attempt' = 0
    /\ logins' = 0
    /\ vm_ret' = "none"
    /\ last_call' = [fn |-> "connect", was_connected |-> connected, outcomes |-> << >>]
    /\ UNCHANGED << max_retries, mixVars, nonMixerVars >>

\* (mutant) one attempt more than max_retries
MoreAttempts_OneMore(a, m) == a <= m

\* for attempt in range(self.max_retries)
MoreAttempts(a, m) == a < m

\* one round of the loop of connect(): api(kind) and login(), which succeed
\* (return True) or raise (sleep, next round); after the last round connect()
\* returns False
ConnectLogin ==
    /\ vm_pc = "login"
    /\ IF MoreAttempts(attempt, max_retries)
       THEN /\ logins' = logins + 1
            /\ \E ok \in BOOLEAN :
                  /\ last_call' = [last_call EXCEPT !.outcomes = Append(@, ok)]
                  /\ IF ok
                     THEN /\ connected' = TRUE
                          /\ vm_ret' = Ret(TRUE)
                          /\ vm_pc' = "idle"
                          /\ UNCHANGED attempt
                     ELSE /\ attempt' = attempt + 1
                          /\ UNCHANGED << connected, vm_ret, vm_pc >>
       ELSE /\ vm_ret' = Ret(FALSE)
            /\ vm_pc' = "idle"
            /\ UNCHANGED << connected, attempt, logins, last_call >>
    /\ UNCHANGED << max_retries, strip_mute, nonMixerVars >>

\* disconnect(): logout when connected; an exception is caught and logged and
\* leaves the controller connected
MixerDisconnect ==
    /\ vm_pc = "idle"
    /\ \E ok \in BOOLEAN : connected' = (connected /\ ~ok)
    /\ vm_ret' = "none"
    /\ last_call' = [fn |-> "disconnect"]
    /\ UNCHANGED << max_retries, vm_pc, attempt, logins, strip_mute, nonMixerVars >>

\* what mute_strip returns
MuteStripReturn(conn, ok) == conn /\ ok

\* what set_ptt_mode returns: False when not connected, otherwise True (the
\* results of the two mute_strip calls are not looked at, and mute_strip does
\* not raise)
SetPttModeReturn(conn, ok_mic, ok_tts) == conn

\* mute_strip(index, mute)
MuteStripCall ==
    /\ vm_pc = "idle"
    /\ \E index \in { strip_mic, strip_tts }, mute \in BOOLEAN, ok \in BOOLEAN :
          /\ strip_mute' = MuteStrip(strip_mute, connected, index, mute, ok)
          /\ vm_ret' = Ret(MuteStripReturn(connected, ok))
          /\ last_call' = [fn |-> "mute_strip", index |-> index, mute |-> mute,
                            ok |-> ok, before |-> strip_mute]
    /\ UNCHANGED << max_retries, vm_pc, attempt, logins, connected, nonMixerVars >>

\* set_ptt_mode(pressed, strip_mic, strip_tts)
SetPttModeCall ==
    /\ vm_pc = "idle"
    /\ \E is_pressed, ok_mic, ok_tts \in BOOLEAN :
          /\ strip_mute' = SetPttMode(strip_mute, connected, is_pressed, ok_mic, ok_tts)
          /\ vm_ret' = Ret(SetPttModeReturn(connected, ok_mic, ok_tts))
          /\ last_call' = [fn |-> "set_ptt_mode", pressed |-> is_pressed,
                            ok_mic |-> ok_mic, ok_tts |-> ok_tts, before |-> strip_mute]
    /\ UNCHANGED << max_retries, vm_pc, attempt, logins, connected, nonMixerVars >>

NextMixer ==
    \/ NewController
    \/ ConnectCall
    \/ ConnectLogin
    \/ MixerDisconnect
    \/ MuteStripCall
    \/ SetPttModeCall

SpecMixer == Init /\ [][NextMixer]_vars

\* ---------------------------------------------------------------------------
\* TimingStats by itself
\* ---------------------------------------------------------------------------

\* every variable but those of the tracker
nonStatVars == << lifeVars, pressed, elapsed, hk_pc, ptt_active, mixVars,
                  audio_buffer_48k, capVars, loopVars, sttVars, keyHist, sessHist,
                  hdlHist, bufHist, devVars, out_stream, stopVars, trVars, api,
                  max_retries, vm_pc, attempt, vm_ret, logins, last_call, cliVars >>

\* (mutant) a full deque keeps what it has
DequeAppend_KeepOldest(q, maxlen, x) == IF Len(q) < maxlen THEN Append(q, x) ELSE q

\* collections.deque(maxlen=...).append(x): on a full deque the item at the
\* left end is discarded; a deque of maxlen 0 stays empty
DequeAppend(q, maxlen, x) ==
    IF Len(q) < maxlen THEN Append(q, x)
    ELSE IF maxlen = 0 THEN << >> ELSE Append(Tail(q), x)

\* TimingStats(name, max_samples=m)
NewTracker ==
    /\ \E m \in 0..MaxSamples : max_samples' = m
    /\ samples' = << >>
    /\ added' = << >>
    /\ UNCHANGED nonStatVars

\* add_sample(duration_ms)
AddSample ==
    /\ Len(added) < MaxAdds
    /\ \E d \in 1..MaxDuration :
          /\ samples' = DequeAppend(samples, max_samples, d)
          /\ added' = Append(added, d)
    /\ UNCHANGED << max_samples, nonStatVars >>

NextStats == NewTracker \/ AddSample

SpecStats == Init /\ [][NextStats]_vars

\* ---------------------------------------------------------------------------
\* The library functions by themselves: the stereo downmix, the resamplers and
\* the ratio test.  The arguments of one call are drawn in the initial state;
\* the action applies the function and records what it returned.
\* ---------------------------------------------------------------------------

\* every variable but the record of the call and those of the command line
pipeVars ==
    << lifeVars, pressed, elapsed, hk_pc, ptt_active, mixVars,
       audio_buffer_48k, capVars, loopVars, sttVars, keyHist, sessHist,
       hdlHist, bufHist, devVars, out_stream, stopVars, trVars, api,
       max_retries, vm_pc, attempt, vm_ret, logins, statVars >>
nonCallVars == << pipeVars, cliVars >>

Int16Span == Int16Max - Int16Min + 1
InInt16(x) == Int16Min <= x /\ x <= Int16Max
Abs(x) == IF x < 0 THEN -x ELSE x

\* ndarray.astype(np.int16) of an integer array: the low 16 bits are kept
AsInt16(x) == ((x - Int16Min) % Int16Span) + Int16Min

\* ndarray.astype(np.int32) of an int16 array: every value is kept
AsInt32(x) == x

\* (mutant) the two channels are added in int16
StereoToMono_NarrowSum(left, right) == AsInt16(AsInt16(left + right) \div 2)

\* downmix_stereo_to_mono_int16 on one sample pair: the channels are widened
\* to int32, added, floor-divided by 2 (//) and narrowed to int16
StereoToMono(left, right) == AsInt16((AsInt32(left) + AsInt32(right)) \div 2)

\* (mutant) a ratio of exactly 8 is refused
ValidateResampleRatio_Below(source_rate, target_rate) ==
    IF source_rate <= 0 \/ target_rate <= 0 THEN FALSE
    ELSE LET hi == IF source_rate > target_rate THEN source_rate ELSE target_rate
             lo == IF source_rate > target_rate THEN target_rate ELSE source_rate
         IN  hi < MaxRatio * lo

\* validate_resample_ratio: ratio = max / min is a quotient of two positive
\* integers, so ratio <= 8.0 is max <= 8 * min
ValidateResampleRatio(source_rate, target_rate) ==
    IF source_rate <= 0 \/ target_rate <= 0 THEN FALSE
    ELSE LET hi == IF source_rate > target_rate THEN source_rate ELSE target_rate
             lo == IF source_rate > target_rate THEN target_rate ELSE source_rate
         IN  hi <= MaxRatio * lo

Generic == "resample_to_target_rate_int16"
ResampleFns == { "downsample_48k_to_16k_int16", "upsample_16k_to_48k_int16",
                 "upsample_24k_to_48k_int16", Generic }

\* the rates each function hands to soxr.resample
FixedRates(fn) ==
    CASE fn = "downsample_48k_to_16k_int16" -> << 48000, 16000 >>
      [] fn = "upsample_16k_to_48k_int16"   -> << 16000, 48000 >>
      [] fn = "upsample_24k_to_48k_int16"   -> << 24000, 48000 >>

\* (mutant) resample_to_target_rate_int16 without its shortcut
SameRate_Never(source_rate, target_rate) == FALSE

\* resample_to_target_rate_int16: if source_rate == target_rate
SameRate(source_rate, target_rate) == source_rate = target_rate

\* the call gets as far as soxr.resample
UsesFilter(fn, audio, source_rate, target_rate) ==
    /\ ~(fn = Generic /\ SameRate(source_rate, target_rate))
    /\ Len(audio) # 0

Peak(audio) ==
    IF audio = << >> THEN 0
    ELSE CHOOSE m \in { Abs(audio[i]) : i \in 1..Len(audio) } :
             \A i \in 1..Len(audio) : Abs(audio[i]) <= m

\* the nominal number of output samples, len * target / source rounded
OutLen(n, source_rate, target_rate) ==
    (2 * n * target_rate + source_rate) \div (2 * source_rate)

\* resampled * 32767.0, one value per output sample, as the whole number the
\* cast truncates it to.  soxr.resample is a band-limited interpolator: what it
\* returns is not in the repository, and between the samples of a frame the
\* interpolated wave exceeds the frame's peak (a sine of a quarter of the
\* sample rate sampled at +-45 degrees has samples of 0.707 of its peak), so
\* every value within OvershootPct of the peak is a possible output
FilterValues(audio) ==
    { v \in ScaledSamples : Abs(v) * 100 <= Peak(audio) * OvershootPct }
SoxrResample(audio, source_rate, target_rate) ==
    [1..OutLen(Len(audio), source_rate, target_rate) -> FilterValues(audio)]

Clamp16(x) == IF x < Int16Min THEN Int16Min ELSE IF x > Int16Max THEN Int16Max ELSE x

\* ndarray.astype(np.int16) of a float array: a value in range is truncated
\* to itself; the cast of a value out of range is undefined in C, and a build
\* either keeps the low 16 bits of the wider integer or saturates
FloatToInt16(x, saturating) ==
    IF InInt16(x) THEN x ELSE IF saturating THEN Clamp16(x) ELSE AsInt16(x)

\* the four resampling functions: the shortcut of the general one, the test
\* for an empty frame, then filter, scale and cast
Resample(fn, audio, source_rate, target_rate, scaled, saturating) ==
    IF fn = Generic /\ SameRate(source_rate, target_rate) THEN audio
    ELSE IF Len(audio) = 0 THEN << >>
    ELSE [i \in 1..Len(scaled) |-> FloatToInt16(scaled[i], saturating)]

Frames == UNION { [1..n -> FrameSamples] : n \in 0..MaxFrameLen }

RatePairs(fn) ==
    IF fn = Generic THEN GenericRates \X GenericRates ELSE { FixedRates(fn) }

DownmixArgs ==
    { [fn |-> "downmix_stereo_to_mono_int16", pending |-> TRUE,
       left |-> l, right |-> r, ret |-> 0] : l \in StereoSamples, r \in StereoSamples }

ValidateArgs ==
    { [fn |-> "validate_resample_ratio", pending |-> TRUE,
       source_rate |-> a, target_rate |-> b, ret |-> FALSE] :
          a \in ValidateRates, b \in ValidateRates }

\* soxr.resample is modelled for positive rates only
ResampleArgs ==
    UNION { { [fn |-> f, pending |-> TRUE, audio |-> a, source_rate |-> p[1],
               target_rate |-> p[2], filtered |-> FALSE, scaled |-> << >>,
               ret |-> << >>] :
                 a \in { x \in Frames : \/ ~UsesFilter(f, x, p[1], p[2])
                                        \/ (p[1] > 0 /\ p[2] > 0) } } :
            f \in ResampleFns, p \in GenericRates \X GenericRates } 

InitLib ==
    /\ InitBase
    /\ ~strip_mute[strip_mic] /\ strip_mute[strip_tts]
    /\ last_call \in DownmixArgs \cup ValidateArgs
                     \cup { c \in ResampleArgs :
                              << c.source_rate, c.target_rate >> \in RatePairs(c.fn) }

CallDownmix ==
    /\ last_call.fn = "downmix_stereo_to_mono_int16" /\ last_call.pending
    /\ last_call' = [last_call EXCEPT
                        !.pending = FALSE,
                        !.ret = StereoToMono(last_call.left, last_call.right)]
    /\ UNCHANGED nonCallVars

CallValidate ==
    /\ last_call.fn = "validate_resample_ratio" /\ last_call.pending
    /\ last_call' = [last_call EXCEPT
                        !.pending = FALSE,
                        !.ret = ValidateResampleRatio(last_call.source_rate,
                                                      last_call.target_rate)]
    /\ UNCHANGED nonCallVars

CallResample ==
    /\ last_call.fn \in ResampleFns /\ last_call.pending
    /\ LET c == last_call
           f == UsesFilter(c.fn, c.audio, c.source_rate, c.target_rate)
       IN  \E scaled \in IF f THEN SoxrResample(c.audio, c.source_rate, c.target_rate)
                         ELSE { << >> },
              saturating \in IF f THEN BOOLEAN ELSE { FALSE } :
                last_call' = [c EXCEPT
                                 !.pending = FALSE,
                                 !.filtered = f,
                                 !.scaled = scaled,
                                 !.ret = Resample(c.fn, c.audio, c.source_rate,
                                                  c.target_rate, scaled, saturating)]
    /\ UNCHANGED nonCallVars

NextLib == CallDownmix \/ CallValidate \/ CallResample

SpecLib == InitLib /\ [][NextLib]_vars

\* ---------------------------------------------------------------------------
\* The life cycle without sessions: setup on any machine, then start() and
\* stop() in any order, the key left alone
\* ---------------------------------------------------------------------------
NextLife ==
    \/ SetupAnyDevice
    \/ StartPipeline
    \/ StopPipeline
    \/ StopPtt
    \/ StopInput
    \/ StopOutput
    \/ StopStt
    \/ StopMixer
    \/ \E t \in Threads : LoopTop(t)
    \/ \E t \in Threads : LoopTr(t)

SpecLife == Init /\ [][NextLife]_vars

\* ---------------------------------------------------------------------------
\* stop() and start() around a session: the key is pressed once and held
\* ---------------------------------------------------------------------------

\* stop() on a running pipeline
Stop == running /\ StopPipeline

NextStop ==
    \/ Setup
    \/ Start
    \/ Stop
    \/ StopPtt
    \/ StopInput
    \/ StopOutput
    \/ StopStt
    \/ StopMixer
    \/ KeyDownOnce
    \/ PressedRoute
    \/ PressedClear
    \/ PressedCapture
    \/ PressedStt
    \/ CapturedTest
    \/ CapturedPut
    \/ \E t \in Threads : LoopTop(t)
    \/ \E t \in Threads : LoopGet(t)
    \/ \E t \in Threads : LoopPush(t)
    \/ \E t \in Threads : LoopTr(t)

SpecStop == InitStop /\ [][NextStop]_vars

\* ---------------------------------------------------------------------------
\* The command run-ptt: cmd_run_ptt on the main thread, from the call to the
\* return, around one pipeline whose key is pressed at most once
\* ---------------------------------------------------------------------------

\* cmd_run_ptt(args) is called
CmdRunPtt ==
    /\ cli_pc = "none"
    /\ cli_pc' = "load"
    /\ UNCHANGED << exit_code, pipeVars, last_call >>

\* config = load_config(): a ValueError is reported and 1 is returned
LoadConfig ==
    /\ cli_pc = "load"
    /\ \E ok \in BOOLEAN :
          IF ok THEN cli_pc' = "devices" /\ UNCHANGED exit_code
                ELSE cli_pc' = "failed_config" /\ exit_code' = { 1 }
    /\ UNCHANGED << pipeVars, last_call >>

\* find_device_by_name for the configured microphone and output device: a
\* name that is not found is reported and 1 is returned
ValidateDevices ==
    /\ cli_pc = "devices"
    /\ \E mic_found, tts_found \in BOOLEAN :
          IF mic_found /\ tts_found
          THEN cli_pc' = "enter" /\ UNCHANGED exit_code
          ELSE cli_pc' = "failed_device" /\ exit_code' = { 1 }
    /\ UNCHANGED << pipeVars, last_call >>

\* with PTTPipeline(config): __enter__ calls setup() and raises RuntimeError
\* when it returns False; except Exception reports it and returns 1 (no
\* __exit__ runs for an __enter__ that raised)
EnterSetup ==
    /\ cli_pc = "enter"
    /\ \E vm_ok, clients_ok \in BOOLEAN :
          /\ SetupSteps(vm_ok, clients_ok, TRUE, TRUE)
          /\ IF vm_ok /\ clients_ok
             THEN cli_pc' = "start" /\ UNCHANGED exit_code
             ELSE cli_pc' = "failed_setup" /\ exit_code' = { 1 }
    /\ UNCHANGED compVars

\* __enter__ goes on with self.start()
EnterStart == cli_pc = "start" /\ Start

\* __enter__ returns; the body prints and sleeps second after second
WithBody ==
    /\ cli_pc = "start" /\ running
    /\ cli_pc' = "body"
    /\ UNCHANGED << exit_code, pipeVars, last_call >>

\* Ctrl+C: KeyboardInterrupt is raised in the body, and the with statement
\* calls __exit__
Interrupt ==
    /\ cli_pc = "body"
    /\ cli_pc' = "exit"
    /\ UNCHANGED << exit_code, pipeVars, last_call >>

\* __exit__ calls self.stop()
ExitStop == cli_pc = "exit" /\ Stop

\* stop() is over.  When it returned, __exit__ returns None, the
\* KeyboardInterrupt goes on to except KeyboardInterrupt and 0 is returned;
\* when it raised, its exception takes the place of the KeyboardInterrupt,
\* except Exception catches it and 1 is returned
ExitReturn ==
    /\ cli_pc = "exit" /\ ~running /\ stop_pc = "idle"
    /\ cli_pc' = "interrupted"
    /\ exit_code' = IF stop_raised THEN { 1 } ELSE { 0 }
    /\ UNCHANGED << pipeVars, last_call >>

NextCli ==
    \/ CmdRunPtt
    \/ LoadConfig
    \/ ValidateDevices
    \/ EnterSetup
    \/ EnterStart
    \/ WithBody
    \/ Interrupt
    \/ ExitStop
    \/ ExitReturn
    \/ StopPtt
    \/ StopInput
    \/ StopOutput
    \/ StopStt
    \/ StopMixer
    \/ KeyDownOnce
    \/ PressedRoute
    \/ PressedClear
    \/ PressedCapture
    \/ PressedStt
    \/ CapturedTest
    \/ CapturedPut
    \/ \E t \in Threads : LoopTop(t)
    \/ \E t \in Threads : LoopGet(t)
    \/ \E t \in Threads : LoopPush(t)
    \/ \E t \in Threads : LoopTr(t)

SpecCli == InitStop /\ [][NextCli]_vars

\* ===========================================================================
\* Claims
\* ===========================================================================

InCalls(op) == \E i \in 1..Len(calls) : calls[i] = op
Pos(op) == CHOOSE i \in 1..Len(calls) : calls[i] = op
Routed == strip_mute[strip_mic] /\ ~strip_mute[strip_tts]
Reverted == ~strip_mute[strip_mic] /\ strip_mute[strip_tts]
BetweenSessions == cb_last2[2] = "end" /\ hk_pc = "idle"

\* C1: after a session end has completed and before the next session start,
\* the mic strip is unmuted and the synthesized-voice strip is muted (stated
\* for a session whose routing switch the mixer accepted).  The release handler
\* never calls set_ptt_mode(pressed=False): the formula is violated.
C1_RoutingRevertedAfterSessionEnd ==
    (BetweenSessions /\ route_ok) => Reverted

\* C2: while the session-active flag is set, the buffer holds only frames
\* captured after that session's start was signaled.  The flag is set before
\* the buffer is cleared, so the loop can pop what an earlier session left:
\* the formula is violated.
C2_NoStaleFrames ==
    ptt_active =>
        \A i \in 1..Len(audio_buffer_48k) : audio_buffer_48k[i] > start_seq

\* C3: at most one session at a time: the session callbacks alternate,
\* beginning with a session start; the handler is pressed exactly from a start
\* to the next end, and so is the pipeline's session flag; a key-down handled
\* while a session is active fires no session start.
C3_OneSessionAtATime ==
    /\ cb_last2 \in { << "none", "none" >>, << "none", "start" >>,
                      << "start", "end" >>, << "end", "start" >> }
    /\ pressed <=> cb_last2[2] = "start"
    /\ ptt_active <=> pressed
    /\ (ev.type = "down" /\ ev.was_pressed) => ~ev.fired

\* a second session is running and a key-down beyond the debounce window was
\* handled during it without starting another
C3_Witness ==
    /\ cb_last2 = << "end", "start" >>
    /\ ev.type = "down" /\ ev.was_pressed /\ ev.passed /\ ~ev.fired

\* C4: a key-up that arrives within the debounce window after the accepted
\* key-down of the running session is accepted and fires session end.  The
\* debounce test does not look at the direction of the edge: the formula is
\* violated.
C4_QuickReleaseAccepted ==
    (ev.type = "up" /\ ev.quick) => (ev.passed /\ ev.fired)

\* C5: of two successive key-down edges less than the debounce window apart,
\* the first of which fired session start, the second fires none; a key-down
\* edge that comes more than the window after one that fired session start,
\* with the key not held, fires its own.  The debounce test measures from the
\* last event that passed it, whatever its direction and whether or not it
\* caused a transition: the formula is violated.
C5_KeyDownPairs ==
    ev.type = "down" =>
        /\ (ev.gap = "lt" /\ ev.prev_fired) => ~ev.fired
        /\ (ev.gap = "gt" /\ ev.prev_fired /\ ~ev.was_pressed) => ev.fired

\* C6: under every interleaving of pushes, pops and clears the buffer holds
\* at most its capacity.
C6_BufferBounded == Len(audio_buffer_48k) <= maxsize

\* the buffer is full and a push has been refused
C6_Witness == Len(audio_buffer_48k) = maxsize /\ dropped

\* C7: a push onto a full buffer does not block (the put step is enabled),
\* discards the incoming frame and leaves the buffered frames and their order
\* as they were.
C7_DropNewest ==
    /\ [](cb_pc = "put" => ENABLED CapturedPut)
    /\ [][(cb_pc = "put" /\ cb_pc' = "idle" /\ Len(audio_buffer_48k) = maxsize)
            => audio_buffer_48k' = audio_buffer_48k]_vars

\* a frame has been dropped and the oldest frame of the session is still the
\* head of the full buffer
C7_Witness ==
    /\ dropped /\ cb_pc = "idle"
    /\ Len(audio_buffer_48k) = maxsize
    /\ audio_buffer_48k[1] = start_seq + 1

C9_CaptureStopsBeforeRecognition ==
    /\ [](InCalls("stt.stop") =>
             (InCalls("input_stream.stop") /\ Pos("input_stream.stop") < Pos("stt.stop")))
    /\ [][(Len(calls') > Len(calls) /\ calls'[Len(calls')] = "stt.stop")
            => (stream = "none" /\ tail_age >= TailMs)]_vars
    /\ [][(is_recognizing /\ ~is_recognizing')
            => (stream = "none" /\ tail_age >= TailMs)]_vars

\* a session that captured and recognized has been ended by a release
C9_Witness ==
    /\ calls = << "set_ptt_mode", "input_stream.start", "stt.start",
                  "input_stream.stop", "stt.stop" >>
    /\ ~is_recognizing /\ stream = "none" /\ Len(stt_pushed) > 0

\* C10: no pop by the processing loop interleaves with the buffer clear of a
\* session start: the loop never takes a frame from a buffer the clear has
\* begun to empty.  The clear is a loop of single removals with the session
\* flag already set: the formula is violated.
C10_ClearAtomic ==
    [][(\E t \in Threads : lp_pc[t] = "get" /\ lp_pc'[t] = "push")
          => ~(hk_pc = "p_clear" /\ cleared > 0)]_vars

\* the session start handler has set the flag and not yet finished the clear
BeforeClearDone == hk_pc \in { "p_route", "p_clear" }

C12_PressReleasePress ==
    [][(ev.type = "up" /\ ev.was_pressed /\ ev'.type = "down")
          => (ev.fired /\ ev'.fired)]_vars

\* C17: a setup() that has not succeeded leaves nothing acquired: as long as
\* setup() has not returned True the mixer is not connected.  setup() returns
\* False from a later step without disconnecting: the formula is violated.
C17_FailedSetupReleases == ~setup_done => ~connected

\* C18: a configured device name that matches no device makes setup() fail:
\* whenever setup() has returned True, both streams were created with the
\* device the configuration names.  setup() only warns and creates the stream
\* with the default device: the formula is violated.
C18_UnknownDeviceFatal == setup_done => (mic_dev = "named" /\ tts_dev = "named")

\* the program's own state: every variable but the history
progVars == << lifeVars, pressed, elapsed, hk_pc, ptt_active, mixVars,
               audio_buffer_48k, capVars, loopVars, sttVars, devVars,
               out_stream, stop_pc, translation_queue >>

\* C16: start() and stop() are idempotent.  While the pipeline runs no step
\* starts a processing thread or installs the hook; on a stopped pipeline with
\* no stop() under way no release is begun; and the start() or stop() that
\* finds its work done changes no program state.
C16_StartStopIdempotent ==
    /\ [][(running /\ running')
            => /\ \A t \in Threads : lp_pc[t] = "off" => lp_pc'[t] = "off"
               /\ hook_active' => hook_active]_vars
    /\ [][(~running /\ stop_pc = "idle")
            => (stop_pc' = "idle" /\ released' = released)]_vars
    /\ [][(api' # api /\ api' \in { "start_noop", "stop_noop" })
            => UNCHANGED progVars]_vars

\* start() has been called on a pipeline that was stopped and started again
C16_Witness ==
    /\ api = "start_noop"
    /\ running
    /\ released # {}
    /\ Cardinality({ t \in Threads : lp_pc[t] # "off" }) = 1

\* C20: once stop() has cleared the running flag a processing loop ends with
\* the iteration it is in: a thread that was alive when stop() cleared the
\* flag leaves its next test of the flag only by terminating.  The test reads
\* the flag as it is then: a start() that has set it again keeps the thread
\* in the loop, so the formula is violated.
C20_LoopEndsAfterStop ==
    [][\A t \in stale : (lp_pc[t] = "top" /\ lp_pc'[t] # "top") => lp_pc'[t] = "off"]_vars

\* what stop() has to release
Resources == { "hook", "input", "output", "stt", "mixer" }

\* C15: stop() attempts the release of every resource, whatever an earlier
\* release does: when stop() has ended, the release of each of the five has
\* been attempted.  An exception of a stream's or the recognizer's stop()
\* leaves PTTPipeline.stop at that line: the formula is violated.
C15_StopReleasesAll ==
    (api = "stop" /\ stop_pc = "idle") => released = Resources

\* C13: frames reach the recognizer in the order of their capture, none
\* twice: the capture numbers of the frames forwarded so far increase.  After
\* stop() and start() two processing threads take frames from the buffer and
\* forward them each at its own pace: the formula is violated.
C13_ForwardedInCaptureOrder ==
    \A i, j \in 1..Len(stt_pushed) : i < j => stt_pushed[i] < stt_pushed[j]

\* C19: a failure while a frame is forwarded or an utterance is synthesized
\* or played neither ends the processing loop nor the session, and what
\* failed is not tried again.  A loop thread terminates only when the running
\* flag is cleared; a step of the loop leaves the session as it is; the step
\* that fails puts nothing back and leaves its thread in the loop with the
\* frame or utterance dropped; no utterance is synthesized twice.
C19_LoopSurvivesFailures ==
    /\ [][\A t \in Threads : (lp_pc[t] # "off" /\ lp_pc'[t] = "off") => ~running]_vars
    /\ [][(\E t \in Threads : lp_pc[t] # "off" /\ lp_pc'[t] # lp_pc[t])
            => UNCHANGED << running, pressed, ptt_active, stream, is_recognizing >>]_vars
    /\ [][(failed' # failed)
            => /\ audio_buffer_48k' = audio_buffer_48k
               /\ translation_queue' = translation_queue
               /\ \A t \in Threads :
                     lp_pc'[t] # lp_pc[t]
                        => /\ lp_pc'[t] \in { "top", "tr" }
                           /\ lp_frame'[t] = 0
                           /\ lp_tr'[t] = 0]_vars
    /\ [](\A i, j \in 1..Len(synthesized) : i < j => synthesized[i] # synthesized[j])

\* frame 2 and utterance 1 were lost to failures; frame 3 and utterance 2 came
\* through after them
C19_Witness ==
    /\ { "frame", "synthesis" } \subseteq failed
    /\ stt_pushed = << 1, 3 >>
    /\ synthesized = << 1, 2 >>
    /\ played = << 2 >>
    /\ running

InBuffer(f) == \E i \in 1..Len(audio_buffer_48k) : audio_buffer_48k[i] = f

\* C21: the processing loop is not held up by one collaborator: a frame that
\* is in the buffer during a session is taken from the buffer for forwarding
\* (or the session ends) whatever synthesis and playback do.  The loop calls
\* synthesis and playback itself, between two buffer pops, and waits for them:
\* the formula is violated.
C21_FrameForwardedDespiteStall ==
    \A f \in 1..MaxFrames :
        (ptt_active /\ running /\ InBuffer(f)) ~> (~InBuffer(f) \/ ~ptt_active)

\* C22 as stated: once more frames have been pushed than the buffer holds, the
\* oldest frame in the buffer was pushed at most maxsize pushes ago.  A push
\* onto a full buffer is dropped and ages nothing out: the formula is violated.
C22_OldestWithinCapacity ==
    (captured > maxsize /\ audio_buffer_48k # << >>)
        => captured - Head(audio_buffer_48k) <= maxsize

\* C22, amended: the buffer holds at most maxsize frames, and a push never
\* removes the oldest frame in it or any other: only a pop does.
C22_PushKeepsOldest ==
    /\ [](Len(audio_buffer_48k) <= maxsize)
    /\ [][(captured' = captured + 1 /\ audio_buffer_48k # << >>)
            => /\ Len(audio_buffer_48k') >= Len(audio_buffer_48k)
               /\ \A i \in 1..Len(audio_buffer_48k) :
                     audio_buffer_48k'[i] = audio_buffer_48k[i]]_vars

\* the buffer is full, its oldest frame is the first ever pushed, and more
\* than maxsize pushes have followed it
C22_Witness ==
    /\ Len(audio_buffer_48k) = maxsize
    /\ Head(audio_buffer_48k) = 1
    /\ captured > maxsize + 1

AllFailed(outcomes) == \A i \in 1..Len(outcomes) : ~outcomes[i]

C24_PttModeSetsStrips ==
    /\ (last_call.fn = "set_ptt_mode" /\ connected)
          => /\ strip_mute[strip_mic] = last_call.pressed
             /\ strip_mute[strip_tts] = ~last_call.pressed
    /\ (last_call.fn \in { "set_ptt_mode", "mute_strip" } /\ ~connected)
          => (vm_ret = "false" /\ strip_mute = last_call.before)

\* C24, amended: on a connected controller each of the two strips whose mute
\* call the mixer accepts has the value of the mode, and a strip whose call is
\* rejected is as it was before; on a controller that is not connected
\* set_ptt_mode and mute_strip return False and change no strip.
C24_PttModeSetsAcceptedStrips ==
    /\ (last_call.fn = "set_ptt_mode" /\ connected)
          => /\ strip_mute[strip_mic] = IF last_call.ok_mic THEN last_call.pressed
                                         ELSE last_call.before[strip_mic]
             /\ strip_mute[strip_tts] = IF last_call.ok_tts THEN ~last_call.pressed
                                         ELSE last_call.before[strip_tts]
    /\ (last_call.fn \in { "set_ptt_mode", "mute_strip" } /\ ~connected)
          => (vm_ret = "false" /\ strip_mute = last_call.before)

\* set_ptt_mode(pressed=True) on a connected controller has switched both
\* strips over
C24_Witness ==
    /\ last_call.fn = "set_ptt_mode"
    /\ connected
    /\ last_call.pressed
    /\ ~last_call.before[strip_mic] /\ last_call.before[strip_tts]
    /\ strip_mute[strip_mic] /\ ~strip_mute[strip_tts]

Min(a, b) == IF a < b THEN a ELSE b

\* C25: a tracker retains at most max_samples samples, and they are the ones
\* added last, in the order in which they were added.
C25_RetainsMostRecent ==
    /\ Len(samples) = Min(Len(added), max_samples)
    /\ \A i \in 1..Len(samples) :
          samples[i] = added[Len(added) - Len(samples) + i]

\* more samples were added than the tracker holds, and the first one added
\* differs from all that are retained
C25_Witness ==
    /\ max_samples = 2
    /\ Len(added) = MaxAdds
    /\ Len(samples) = 2
    /\ added[1] = 2
    /\ samples = << 1, 1 >>

Returned(fns) == last_call.fn \in fns /\ ~last_call.pending

\* C26: for every pair of 16-bit left and right samples the downmix returns
\* their mean, (left + right) / 2 rounded down, the sum taken without overflow;
\* the result is a signed 16-bit value; left 1000 and right -1000 give 0, and
\* left = right = 32767 give 32767.
C26_DownmixIsHalfSum ==
    Returned({ "downmix_stereo_to_mono_int16" }) =>
        LET sum == last_call.left + last_call.right
            mono == last_call.ret
        IN  /\ 2 * mono <= sum /\ sum <= 2 * mono + 1
            /\ InInt16(mono)
            /\ (last_call.left = 1000 /\ last_call.right = -1000) => mono = 0
            /\ (last_call.left = Int16Max /\ last_call.right = Int16Max)
                  => mono = Int16Max

\* two full-scale samples, whose sum does not fit 16 bits, were downmixed
C26_Witness ==
    /\ Returned({ "downmix_stereo_to_mono_int16" })
    /\ last_call.left = Int16Max /\ last_call.right = Int16Max
    /\ last_call.ret = Int16Max

\* C27: validate_resample_ratio(sr1, sr2) is false when a rate is not
\* positive or when the larger rate is more than 8 times the smaller, true
\* otherwise (a ratio of exactly 8 included), and swapping the rates does not
\* change the result.
C27_RatioValidation ==
    Returned({ "validate_resample_ratio" }) =>
        LET a == last_call.source_rate
            b == last_call.target_rate
            exceeds == \/ (a >= b /\ a > MaxRatio * b)
                       \/ (b >= a /\ b > MaxRatio * a)
        IN  /\ last_call.ret <=> ~(a <= 0 \/ b <= 0 \/ exceeds)
            /\ last_call.ret <=> ValidateResampleRatio(b, a)

\* a pair of rates whose ratio is exactly 8 was accepted
C27_Witness ==
    /\ Returned({ "validate_resample_ratio" })
    /\ last_call.source_rate = 384000 /\ last_call.target_rate = 48000
    /\ last_call.ret

\* C28: every resampling function returns an empty frame for an empty frame,
\* whatever the rates; resampling with equal source and target rate returns
\* the input unchanged.
C28_EmptyAndIdentity ==
    Returned(ResampleFns) =>
        /\ last_call.audio = << >> => last_call.ret = << >>
        /\ last_call.source_rate = last_call.target_rate
              => last_call.ret = last_call.audio

\* a frame of two full-scale samples was resampled from 48 kHz to 48 kHz
C28_Witness ==
    /\ Returned({ Generic })
    /\ last_call.source_rate = 48000 /\ last_call.target_rate = 48000
    /\ last_call.audio = << Int16Max, Int16Min >>
    /\ last_call.ret = << Int16Max, Int16Min >>

\* C29: when the resampled values are narrowed to 16 bits, a value outside
\* [-32768, 32767] becomes the nearest bound of the range and never wraps
\* around.  The functions cast without clamping: the formula is violated.
C29_OutputClamped ==
    (Returned(ResampleFns) /\ last_call.filtered) =>
        \A i \in 1..Len(last_call.scaled) :
            last_call.ret[i] = Clamp16(last_call.scaled[i])

\* C30: run-ptt returns 1 and never starts the pipeline (no processing loop,
\* no hotkey hook) when loading the configuration fails, when a configured
\* device is not found, or when the pipeline's setup fails; it returns 0 when
\* a running pipeline is interrupted by the user, after stop() has run.  An
\* exception that leaves stop() replaces the interrupt and 1 is returned: the
\* formula is violated.
C30_RunPttExitCodes ==
    /\ cli_pc \in { "failed_config", "failed_device", "failed_setup" } =>
          /\ exit_code = { 1 }
          /\ ~running /\ ~hook_active /\ api = "none"
          /\ \A t \in Threads : lp_pc[t] = "off"
    /\ cli_pc = "interrupted" =>
          /\ exit_code = { 0 }
          /\ api = "stop" /\ stop_pc = "idle"

\* C31: when the mixer is not reachable at a session start, the routing call
\* fails without raising and the session start goes on: it clears the buffer,
\* starts the capture stream and starts the recognition session, the session
\* flag and the handler's state stay set; the only way the handler ends before
\* stt.start is an exception of input_stream.start itself.
C31_SessionStartsWithoutMixer ==
    (cb_last2[2] = "start" /\ InCalls("set_ptt_mode") /\ ~route_ok) =>
        /\ ptt_active /\ pressed
        /\ hk_pc \in { "p_clear", "p_capture", "p_stt", "idle" }
        /\ hk_pc = "p_capture" => calls = << "set_ptt_mode" >> /\ cleared = 0
        /\ hk_pc = "p_stt" => calls = << "set_ptt_mode", "input_stream.start" >>
        /\ hk_pc = "idle" =>
              \/ calls = << "set_ptt_mode", "input_stream.start", "stt.start" >>
              \/ calls = << "set_ptt_mode", "input_stream.start" >> /\ stream # "active"

\* the routing call of a session start failed, and the session runs: the
\* stream captures, the recognizer recognizes, a frame of it is in the buffer
C31_Witness ==
    /\ cb_last2[2] = "start" /\ ~route_ok /\ hk_pc = "idle"
    /\ calls = << "set_ptt_mode", "input_stream.start", "stt.start" >>
    /\ ptt_active /\ stream = "active" /\ is_recognizing
    /\ audio_buffer_48k # << >>

C33_NoFrameLeftAtSessionEnd ==
    (cb_last2[2] = "end" /\ hk_pc = "idle" /\ InCalls("stt.stop"))
        => audio_buffer_48k = << >>

\* C34: once stop() has returned (all five releases made, no exception, the
\* key hook removed) and until the next start(), no capture stream, no output
\* stream and no recognition session is open.  A session-start handler that
\* is under way when stop() runs opens the capture stream and the recognizer
\* after stop() has passed them: the formula is violated.
C34_NothingOpenAfterStop ==
    (api = "stop" /\ stop_pc = "idle" /\ released = Resources /\ ~stop_raised
       /\ ~running /\ ~hook_active)
        => (stream = "none" /\ out_stream = "none" /\ ~is_recognizing)

\* C35: once the session-end handler has cleared the session flag, no frame
\* is added to the buffer until the next session start: while the flag is
\* clear the buffer does not grow.  The capture callback tests the flag and
\* puts the frame in two steps, and the release handler clears the flag before
\* it stops the stream: the formula is violated.
C35_NoPutAfterFlagCleared ==
    [][~ptt_active => Len(audio_buffer_48k') <= Len(audio_buffer_48k)]_vars

\* C36: every frame the processing loop pops during an active session is
\* delivered to a started recognition session: the step that forwards a
\* popped frame while the session flag is set appends it to what the
\* recognizer has received.  The session start sets the flag and starts the
\* capture before it starts the recognizer, and push_pcm16_16k drops what it
\* gets while not recognizing: the formula is violated.
C36_PoppedFramesDelivered ==
    [][\A t \in Threads :
          (ptt_active /\ lp_pc[t] = "push" /\ lp_pc'[t] # "push")
              => stt_pushed' = Append(stt_pushed, lp_frame[t])]_vars

\* C37: a key event that passes the debounce test and causes no transition
\* (a key-down while pressed, a key-up while not pressed) leaves the handler
\* as it was, the time the debounce test measures from included, so that it
\* cannot make the handler discard a later genuine key-up: a key-up that
\* comes with the key pressed, at least the debounce window after the
\* key-down that started the session, passes the test.  The handler stores
\* the time of every event that passes the test before it looks at the
\* event: the formula is violated.
C37_NoOpEventKeepsDebounceTime ==
    (ev.type = "up" /\ ev.was_pressed /\ ~ev.quick) => ev.passed

\* C38: at most one processing-loop thread runs at any time, over every
\* sequence of start() and stop().  stop() clears the flag and does not wait
\* for the thread; a start() that follows before the thread has tested the
\* flag sets it again and starts a second thread: the formula is violated.
C38_OneLoopThread ==
    Cardinality({ t \in Threads : lp_pc[t] # "off" }) <= 1

\* C39: when input_stream.start() or stt.start() raises during a session
\* start, the session flag is cleared and the routing reverted: once the
\* session-start handler has ended, the pipeline is not marked as in a
\* session (flag set, microphone strip muted by the handler) unless the
\* capture stream and the recognizer run.  The exception is caught and logged
\* in _handle_key_event and nothing is undone: the formula is violated.
C39_FailedSessionStartUndone ==
    (cb_last2[2] = "start" /\ hk_pc = "idle" /\ stop_pc = "idle" /\ running)
        => \/ stream = "active" /\ is_recognizing
           \/ ~ptt_active /\ ~(route_ok /\ strip_mute[strip_mic])

\* C40: set_ptt_mode returns True only if both strip mute changes were
\* applied: when either mute_strip call fails, it returns False.  It does not
\* look at what mute_strip returns, and mute_strip catches the failure of the
\* remote call: the formula is violated.
C40_PttModeReportsFailure ==
    (last_call.fn = "set_ptt_mode" /\ vm_ret = "true")
        => /\ last_call.ok_mic /\ last_call.ok_tts
           /\ strip_mute[strip_mic] = last_call.pressed
           /\ strip_mute[strip_tts] = ~last_call.pressed
====
